---- MODULE Spec2Model ----
(***************************************************************************)
(* State-machine model of the world simulation in src/src/existential-risk.ts *)
(* (game loop, event handlers, advanceDay, updateContinentSection, the     *)
(* UIButtons interventions), src/src/types.ts (seed state, clampCSValues)  *)
(* and src/src/render.ts (selection and hit-test helpers).                 *)
(*                                                                         *)
(* Numbers.  The program computes with JavaScript doubles; the model uses  *)
(* fixed-point integers, with three special values for Infinity, -Infinity *)
(* and NaN that follow the IEEE rules the code can hit (x/0, 0/0, Inf-Inf, *)
(* 0*Inf, a negative base raised to a fractional power, comparisons with   *)
(* NaN being false, Math.min/Math.max returning NaN for a NaN argument).   *)
(* Every division rounds to the nearest unit.  Units:                      *)
(*   - every dimensionless field of a region (rates, indices, deltas) and  *)
(*     co2ppm, globalTempDiff and their deltas: millionths (S = 10^6);     *)
(*   - totalPopulation, originalPopulation: tens of persons;               *)
(*   - GDPCapita: thousandths of a dollar;                                 *)
(*   - globalBudget and intervention costs: thousands of dollars;          *)
(*   - timeUntilDayAdvance: 1/1533 ms, which makes 1000/30 ms and          *)
(*     120000/365/n ms (n = 1..9) whole numbers;                           *)
(*   - day, gameSpeed, mouse coordinates, rectangles: plain integers.      *)
(***************************************************************************)
EXTENDS Integers, Sequences, FiniteSets, TLC

\* Fixed-point scale of the real-valued fields: one unit is 10^-6.
S == 1000000

\* Scale used inside the power computations: one unit is 10^-4.
P == 10000

\* The special values of a JavaScript number.
Infinity == 2147483647
NaN == 2147483646

IsNaN(a) == a = NaN
IsInf(a) == a = Infinity \/ a = -Infinity
IsFinite(a) == ~IsNaN(a) /\ ~IsInf(a)
Abs(a) == IF a < 0 THEN -a ELSE a
Sign(a) == IF a < 0 THEN -1 ELSE IF a > 0 THEN 1 ELSE 0

\* Unary minus, +, - of JavaScript numbers.
Neg(a) == IF IsNaN(a) THEN NaN ELSE -a
Add(a, b) ==
  IF IsNaN(a) \/ IsNaN(b) THEN NaN
  ELSE IF IsInf(a) THEN (IF IsInf(b) /\ b # a THEN NaN ELSE a)
  ELSE IF IsInf(b) THEN b
  ELSE a + b
Sub(a, b) == Add(a, Neg(b))

\* a < b and a > b of JavaScript numbers: false when either side is NaN.
Lt(a, b) == ~IsNaN(a) /\ ~IsNaN(b) /\ a < b
Gt(a, b) == ~IsNaN(a) /\ ~IsNaN(b) /\ a > b
Le(a, b) == ~IsNaN(a) /\ ~IsNaN(b) /\ a <= b
Ge(a, b) == ~IsNaN(a) /\ ~IsNaN(b) /\ a >= b

MathMin(a, b) == IF IsNaN(a) \/ IsNaN(b) THEN NaN ELSE IF a < b THEN a ELSE b
MathMax(a, b) == IF IsNaN(a) \/ IsNaN(b) THEN NaN ELSE IF a > b THEN a ELSE b

\* The largest radix, of 256, 16, 4 and 2, in which the digit products a * digit
\* and the shifted remainders radix * c stay in the 32-bit range.
Radix(a, c) ==
  IF a <= Infinity \div 512 /\ c <= Infinity \div 512 THEN 256
  ELSE IF a <= Infinity \div 32 /\ c <= Infinity \div 32 THEN 16
  ELSE IF a <= Infinity \div 8 /\ c <= Infinity \div 8 THEN 4
  ELSE 2

\* <<q, r + w>> with the remainder brought back below c, for w < c.
Carry(q, r, w, c) == IF r >= c - w THEN <<q + 1, r - (c - w)>> ELSE <<q, r + w>>

\* <<quotient, remainder>> of a * (radix * b1 + digit) by c, from h, those of
\* a * b1 by c.
Shift(h, a, digit, radix, c) ==
  IF radix = 2
    THEN LET d == Carry(2 * h[1], h[2], h[2], c)
         IN Carry(d[1] + digit * (a \div c), d[2], digit * (a % c), c)
    ELSE LET w == radix * h[2] + a * digit
         IN <<radix * h[1] + w \div c, w % c>>

\* <<quotient, remainder>> of a*b by c for naturals a and b and c in 1..2^30,
\* computed without leaving the 32-bit range: b is taken in digits of the
\* largest radix for which digit products and shifted remainders fit.  The
\* smaller factor goes first.
RECURSIVE MulDivQR(_, _, _)
MulDivQR(a, b, c) ==
  IF a = 0 \/ b <= Infinity \div a THEN <<(a * b) \div c, (a * b) % c>>
  ELSE Shift(MulDivQR(a, b \div Radix(a, c), c), a, b % Radix(a, c), Radix(a, c), c)

\* a*b/c for naturals, rounded to the nearest integer.
MulDivNat(a, b, c) ==
  LET qr == IF a <= b THEN MulDivQR(a, b, c) ELSE MulDivQR(b, a, c) IN qr[1] + (IF qr[2] >= c - qr[2] THEN 1 ELSE 0)

\* a * b / c of JavaScript numbers a and b and a positive integer c.
MulDiv(a, b, c) ==
  IF IsNaN(a) \/ IsNaN(b) THEN NaN
  ELSE IF IsInf(a) \/ IsInf(b)
    THEN (IF a = 0 \/ b = 0 THEN NaN ELSE Sign(a) * Sign(b) * Infinity)
  ELSE Sign(a) * Sign(b) * MulDivNat(Abs(a), Abs(b), c)

\* a * b where b is a real in millionths; the result has the unit of a.
Mul(a, b) == MulDiv(a, b, S)

\* a / n for a positive integer literal n.
DivC(a, n) == MulDiv(a, 1, n)

\* The power of ten by which a divisor and the scale S are both reduced
\* before a division, so that the divisor has at most seven digits: a
\* divisor above 2^22 is rounded to its seven leading digits.
Reduction(b) ==
  IF b <= Infinity \div 512 THEN 1
  ELSE IF b <= (Infinity \div 512) * 10 THEN 10
  ELSE IF b <= (Infinity \div 512) * 100 THEN 100
  ELSE 1000

\* a / b: with b a real in millionths the result has the unit of a; with a
\* and b in the same unit the result is a real in millionths.
Div(a, b) ==
  IF IsNaN(a) \/ IsNaN(b) THEN NaN
  ELSE IF IsInf(a) THEN (IF IsInf(b) THEN NaN
                         ELSE IF b < 0 THEN -a ELSE a)
  ELSE IF IsInf(b) THEN 0
  ELSE IF b = 0 THEN (IF a = 0 THEN NaN ELSE Sign(a) * Infinity)
  ELSE LET k == Reduction(Abs(b))
       IN Sign(a) * Sign(b) * MulDivNat(Abs(a), S \div k, MulDivNat(Abs(b), 1, k))

\* n/d as a real in millionths, for the decimal literals of the source.
Real(n, d) == (n \div d) * S + ((n % d) * S) \div d

(***************************************************************************)
(* Math.pow.  Fractional powers go through the tenth root, found by        *)
(* bisection in units of 10^-4.                                            *)
(***************************************************************************)

\* t^2 for t in units of 10^-4, in the same unit.
Sq(t) == (t * t) \div P

\* t^10 for t in units of 10^-4, in the same unit.
PowTen(t) ==
  LET t5 == (Sq(Sq(t)) * t) \div P
  IN MulDivQR(t5, t5, P)[1]

\* t is at most the tenth root of x, and at most 2.
fits(x, t) == t <= 2 * P /\ PowTen(t) <= x

\* The digit d with one more bit set, when lo + that digit * step still fits.
Bit(x, lo, step, d, bit) ==
  IF fits(x, lo + (d + bit) * step) THEN d + bit ELSE d

\* The largest digit d in 0 .. 15 for which lo + d * step fits.
Digit(x, lo, step) ==
  Bit(x, lo, step, Bit(x, lo, step, Bit(x, lo, step, Bit(x, lo, step, 0, 8), 4), 2), 1)

\* The largest t in lo .. lo + 16 * step - 1 with t <= 2 and t^10 <= x (x and
\* t in units of 10^-4), found four bits at a time; lo^10 <= x.
RECURSIVE RootSearch(_, _, _)
RootSearch(x, lo, step) ==
  IF step = 1 THEN lo + Digit(x, lo, 1)
  ELSE RootSearch(x, lo + Digit(x, lo, step) * step, step \div 16)

\* x^(1/10) for 0 <= x < 2^10, x and the result in units of 10^-4.
Root10(x) == RootSearch(x, 0, 4096)

\* acc * x^kx * t^kt / 10^d for naturals, where x and t are in units of 10^-4;
\* the divisions by ten are spread over the multiplications, which keeps the
\* accumulator between six and nine digits.
RECURSIVE PowAcc(_, _, _, _, _, _)
PowAcc(acc, d, x, kx, t, kt) ==
  LET j == IF d >= 2 /\ acc >= 10000000 THEN 2
           ELSE IF d >= 1 /\ acc >= 1000000 THEN 1
           ELSE 0
  IN IF acc = 0 THEN 0
     ELSE IF kt > 0 THEN PowAcc(MulDivNat(acc, t, P * 10^j), d - j, x, kx, t, kt - 1)
     ELSE IF kx > 0 THEN PowAcc(MulDivNat(acc, x, P * 10^j), d - j, x, kx - 1, t, kt)
     ELSE MulDivNat(acc, 1, 10^d)

\* acc * b^n for a natural n, by repeated squaring; acc and b are in units
\* of 10^-4.
RECURSIVE IntPowAcc(_, _, _)
IntPowAcc(acc, b, n) ==
  IF n = 0 \/ acc = 0 THEN acc
  ELSE IntPowAcc(IF n % 2 = 1 THEN MulDivNat(acc, b, P) ELSE acc,
                 MulDivNat(b, b, P), n \div 2)

\* b^n for a rational b = num/den and an integer n, in units of 10^-4.
IntPow(num, den, n) ==
  IF n >= 0 THEN IntPowAcc(P, (num * P) \div den, n)
  ELSE IntPowAcc(P, MulDivNat(den, P, num), -n)

\* 2.3^(1/10), in units of 10^-4.
TenthRootOf23 == Root10(23000)

\* 2.3^(n + k/10 + rem/10^7) for an integer n, a digit k and rem below 10^6, in
\* units of 10^-4: exact (to rounding) in n and k, linear in rem.
Pow23Tenths(n, k, rem) ==
  MulDivNat(MulDivNat(IntPow(23, 10, n), IntPowAcc(P, TenthRootOf23, k), P),
            P + MulDivNat(rem, TenthRootOf23 - P, S), P)

\* Math.pow(2.3, c) for a real c in millionths; the result is in units of
\* 10^-4.  Exact (to rounding) at whole c and at tenths; linear in between.
Pow23(c) ==
  IF IsNaN(c) THEN NaN
  ELSE IF c = Infinity THEN Infinity
  ELSE IF c = -Infinity THEN 0
  ELSE Pow23Tenths(c \div S, ((c % S) * 10) \div S, ((c % S) * 10) % S)

(***************************************************************************)
(* Constants (existential-risk.ts, lines 22-36).                           *)
(***************************************************************************)
constants ==
  [ FPS |-> 30,
    yearLengthMillis |-> 120 * 1000,
    maxPopulation |-> 1000000000,        \* Math.pow(10, 10) persons
    mapWidth |-> 1400,
    topPanelHeight |-> 55,
    buttonLeftX |-> 350,
    buttonSize |-> 40 ]

\* Units of timeUntilDayAdvance in one millisecond.
TimeUnit == 1533

\* selectedContinentName when no continent is selected, and the result of a
\* lookup that finds no continent.
undefined == "undefined"

\* The value undefined where a ContinentSection is expected; its name is
\* undefined, as ?.name of it is in the code.
noContinent == [name |-> undefined]

(***************************************************************************)
(* Utilities (existential-risk.ts, lines 389-412).                         *)
(***************************************************************************)

\* Restrict a number between a min/max.
clamp(min, max, number) == MathMin(max, MathMax(min, number))

\* constant * Math.pow(x, coefficient), with constant = c[1] / 10^c[2], the
\* coefficient given in tenths, x in units of 10^-4 and t = x^(1/10).
polynomialTerm(x, t, c, coefficient) ==
  Sign(c[1]) * PowAcc(Abs(c[1]) * P, c[2], x, coefficient \div 10, t, coefficient % 10)

\* The polynomial of calculateFinanceIndex at x, in units of 10^-4, with
\* t = x^(1/10); the result is a real in millionths.
polynomial(x, t) ==
  (S \div P) *
    ( polynomialTerm(x, t, <<8, 7>>, 41)
    + polynomialTerm(x, t, <<-78, 7>>, 35)
    + polynomialTerm(x, t, <<-5, 3>>, 23)
    + polynomialTerm(x, t, <<16, 3>>, 20)
    + polynomialTerm(x, t, <<175, 3>>, 10)
    + (-(17 * P) \div 100) )

\* x = GDPCapita / 1000: thousandths of a dollar are millionths of x.
calculateFinanceIndex(GDPCapita) ==
  IF Gt(GDPCapita, 70 * S) THEN 10 * S
  ELSE IF IsNaN(GDPCapita) \/ GDPCapita < 0 THEN NaN   \* Math.pow(x, 4.1) of a negative x
  ELSE polynomial(DivC(GDPCapita, S \div P), Root10(DivC(GDPCapita, S \div P)))

(***************************************************************************)
(* Bounds of the region fields (types.ts, lines 407-429).                  *)
(***************************************************************************)

\* Math.pow(10, 12) dollars lies above the fixed-point range of GDPCapita:
\* every finite value of the model is below it.
maxGDPCapita == Infinity

\* clampCSValues with birthRate taken from birthRateDelta.
clampCSValuesSlip(cs) ==
  [cs EXCEPT
    !.totalPopulation = clamp(0, constants.maxPopulation, cs.totalPopulation),
    !.birthRate = clamp(0, 200 * S, cs.birthRateDelta),
    !.birthRateDelta = clamp(-10 * S, 10 * S, cs.birthRateDelta),
    !.lifeExpectancy = clamp(15 * S, 250 * S, cs.lifeExpectancy),
    !.lifeExpectancyDelta = clamp(-10 * S, 50 * S, cs.lifeExpectancyDelta),
    !.GDPCapita = clamp(827 * 1000, maxGDPCapita, cs.GDPCapita),
    !.GDPCapitaMultiplier = clamp(-Real(4, 10), Real(8, 10), cs.GDPCapitaMultiplier),
    !.happiness = clamp(0, 10 * S, cs.happiness),
    !.happinessDelta = clamp(-6 * S, 6 * S, cs.happinessDelta),
    !.foodIndex = clamp(0, 10 * S, cs.foodIndex),
    !.financeIndex = clamp(0, 10 * S, cs.financeIndex),
    !.educationIndex = clamp(0, 10 * S, cs.educationIndex),
    !.techIndex = clamp(0, 100 * S, cs.techIndex),
    !.techIndexDelta = clamp(-5 * S, 50 * S, cs.techIndexDelta),
    !.diseaseIndex = clamp(0, 100 * S, cs.diseaseIndex),
    !.conflictLevel = clamp(0, 10 * S, cs.conflictLevel),
    !.corruptionIndex = clamp(0, 1 * S, cs.corruptionIndex),
    !.globalTempDiffSensitivity = clamp(-5 * S, 5 * S, cs.globalTempDiffSensitivity)]

clampCSValues(cs) ==
  [cs EXCEPT
    !.totalPopulation = clamp(0, constants.maxPopulation, cs.totalPopulation),
    !.birthRate = clamp(0, 200 * S, cs.birthRate),
    !.birthRateDelta = clamp(-10 * S, 10 * S, cs.birthRateDelta),
    !.lifeExpectancy = clamp(15 * S, 250 * S, cs.lifeExpectancy),
    !.lifeExpectancyDelta = clamp(-10 * S, 50 * S, cs.lifeExpectancyDelta),
    !.GDPCapita = clamp(827 * 1000, maxGDPCapita, cs.GDPCapita),
    !.GDPCapitaMultiplier = clamp(-Real(4, 10), Real(8, 10), cs.GDPCapitaMultiplier),
    !.happiness = clamp(0, 10 * S, cs.happiness),
    !.happinessDelta = clamp(-6 * S, 6 * S, cs.happinessDelta),
    !.foodIndex = clamp(0, 10 * S, cs.foodIndex),
    !.financeIndex = clamp(0, 10 * S, cs.financeIndex),
    !.educationIndex = clamp(0, 10 * S, cs.educationIndex),
    !.techIndex = clamp(0, 100 * S, cs.techIndex),
    !.techIndexDelta = clamp(-5 * S, 50 * S, cs.techIndexDelta),
    !.diseaseIndex = clamp(0, 100 * S, cs.diseaseIndex),
    !.conflictLevel = clamp(0, 10 * S, cs.conflictLevel),
    !.corruptionIndex = clamp(0, 1 * S, cs.corruptionIndex),
    !.globalTempDiffSensitivity = clamp(-5 * S, 5 * S, cs.globalTempDiffSensitivity)]

(***************************************************************************)
(* Game state handling (existential-risk.ts, lines 254-383).               *)
(***************************************************************************)

\* The constants of updateContinentSection (lines 277-309), each computed
\* from cs, the region of the previous day.
populationRatio(cs) == Div(cs.totalPopulation, cs.originalPopulation)

\* populationDelta of the earlier iteration of the function, in which the
\* division by 365 binds to the deaths from disease only.
populationDeltaYearly(cs) ==
  Sub(Sub(Sub(
        Mul(cs.totalPopulation, DivC(cs.birthRate, 1000)),
        Div(cs.totalPopulation, cs.lifeExpectancy)),
        MulDiv(DivC(cs.totalPopulation, 100), DivC(Pow23(cs.conflictLevel), 10), 10 * P)),
      DivC(Mul(cs.totalPopulation,
               DivC(Mul(DivC(cs.diseaseIndex, 5), DivC(cs.diseaseIndex, 5)), 1000)),
           365))

populationDelta(cs) ==
  DivC(Sub(Sub(Sub(
         Mul(cs.totalPopulation, DivC(cs.birthRate, 1000)),          \* births
         Div(cs.totalPopulation, cs.lifeExpectancy)),                \* natural deaths
         MulDiv(DivC(cs.totalPopulation, 100), DivC(Pow23(cs.conflictLevel), 10), 10 * P)),
         Mul(cs.totalPopulation,
             DivC(Mul(DivC(cs.diseaseIndex, 5), DivC(cs.diseaseIndex, 5)), 1000))),
       365)

newPopulation(cs) == Add(cs.totalPopulation, populationDelta(cs))

birthRate(cs) == Add(cs.birthRate, DivC(cs.birthRateDelta, 365))

\* computed by the code, and not part of newCS
birthRateDelta(cs) ==
  Add(cs.birthRateDelta,
      DivC(Add(DivC(Sub(cs.happiness, Real(65, 10)), 300),
               Mul(Real(3, 100), Sub(1 * S, populationRatio(cs)))), 365))

\* lifeExpectancy advanced by a year of its rate.
lifeExpectancyYearly(cs) == Add(cs.lifeExpectancy, cs.lifeExpectancyDelta)

lifeExpectancy(cs) == Add(cs.lifeExpectancy, DivC(cs.lifeExpectancyDelta, 365))

GDPCapita(cs) == Mul(cs.GDPCapita, Add(1 * S, DivC(cs.GDPCapitaMultiplier, 365)))

happiness(cs) == Add(cs.happiness, DivC(cs.happinessDelta, 365))

happinessDelta(cs) ==
  Add(cs.happinessDelta,
      DivC(IF Gt(populationRatio(cs), Real(7, 10))
             THEN Mul(Sub(Real(8, 10), populationRatio(cs)), Real(1, 1000))
             ELSE Real(4, 1000),
           365))

conflictLevel(cs) == Add(cs.conflictLevel, DivC(Sub(Real(65, 10), happiness(cs)), 365))

\* financeIndex incremented by the index of the new GDPCapita.
financeIndexIncremented(cs) ==
  Add(cs.financeIndex, calculateFinanceIndex(GDPCapita(cs)))

financeIndex(cs) == calculateFinanceIndex(GDPCapita(cs))

\* newCS with a disease that recedes by a hundredth of its index a day.
newCSRecovering(cs) ==
  [cs EXCEPT
    !.totalPopulation = newPopulation(cs),
    !.birthRate = birthRate(cs),
    !.lifeExpectancy = lifeExpectancy(cs),
    !.GDPCapita = GDPCapita(cs),
    !.happiness = happiness(cs),
    !.happinessDelta = happinessDelta(cs),
    !.financeIndex = financeIndex(cs),
    !.diseaseIndex = Sub(cs.diseaseIndex, DivC(cs.diseaseIndex, 100)),
    !.conflictLevel = conflictLevel(cs)]

\* The object of lines 337-350.
newCS(cs) ==
  [cs EXCEPT
    !.totalPopulation = newPopulation(cs),
    !.birthRate = birthRate(cs),
    !.lifeExpectancy = lifeExpectancy(cs),
    !.GDPCapita = GDPCapita(cs),
    !.happiness = happiness(cs),
    !.happinessDelta = happinessDelta(cs),
    !.financeIndex = financeIndex(cs),
    !.conflictLevel = conflictLevel(cs)]

\* updateContinentSection with the growth of GDPCapita taken from the first
\* region of the world.
updateContinentSectionLed(gs, cs) ==
  LET led == Mul(cs.GDPCapita,
                 Add(1 * S, DivC(gs.continentSections[1].GDPCapitaMultiplier, 365)))
  IN clampCSValues([newCS(cs) EXCEPT
                      !.GDPCapita = led,
                      !.financeIndex = calculateFinanceIndex(led)])

updateContinentSection(gs, cs) == clampCSValues(newCS(cs))

calculateEmigrations(gs) == gs

\* calculateConflicts paying for its work out of the budget.
calculateConflictsPaid(gs) == [gs EXCEPT !.globalBudget = 0]

calculateConflicts(gs) == gs
calculateIndices(gs) == gs
calculateEvents(gs) == gs

\* The calls of lines 265-268, in the order of the source.
extensionPoints ==
  <<"calculateEmigrations", "calculateConflicts", "calculateIndices", "calculateEvents">>

callExtensionPoint(name, gs) ==
  CASE name = "calculateEmigrations" -> calculateEmigrations(gs)
    [] name = "calculateConflicts" -> calculateConflicts(gs)
    [] name = "calculateIndices" -> calculateIndices(gs)
    [] name = "calculateEvents" -> calculateEvents(gs)

RECURSIVE runExtensionPoints(_, _)
runExtensionPoints(names, gs) ==
  IF names = <<>> THEN gs
  ELSE runExtensionPoints(Tail(names), callExtensionPoint(Head(names), gs))

\* advanceDay without the step of the day counter.
advanceDaySameDay(gs) ==
  LET nextState ==
        [gs EXCEPT
          !.day = gs.day,
          !.co2ppm = Add(gs.co2ppm, DivC(gs.co2ppmDelta, 365)),
          !.globalTempDiff = Add(gs.globalTempDiff, DivC(gs.globalTempDiffDelta, 365)),
          !.continentSections =
            [i \in DOMAIN gs.continentSections |->
               updateContinentSection(gs, gs.continentSections[i])]]
  IN runExtensionPoints(extensionPoints, nextState)

\* advanceDay adding the whole yearly change of co2ppm.
advanceDayByYear(gs) ==
  LET nextState ==
        [gs EXCEPT
          !.day = gs.day + 1,
          !.co2ppm = Add(gs.co2ppm, gs.co2ppmDelta),
          !.globalTempDiff = Add(gs.globalTempDiff, DivC(gs.globalTempDiffDelta, 365)),
          !.continentSections =
            [i \in DOMAIN gs.continentSections |->
               updateContinentSection(gs, gs.continentSections[i])]]
  IN runExtensionPoints(extensionPoints, nextState)

\* advanceDay counting one person less in originalPopulation every day.
advanceDayShrinking(gs) ==
  LET nextState ==
        [gs EXCEPT
          !.day = gs.day + 1,
          !.co2ppm = Add(gs.co2ppm, DivC(gs.co2ppmDelta, 365)),
          !.globalTempDiff = Add(gs.globalTempDiff, DivC(gs.globalTempDiffDelta, 365)),
          !.continentSections =
            [i \in DOMAIN gs.continentSections |->
               [updateContinentSection(gs, gs.continentSections[i]) EXCEPT
                  !.originalPopulation = @ - 1]]]
  IN runExtensionPoints(extensionPoints, nextState)

advanceDay(gs) ==
  LET nextState ==
        [gs EXCEPT
          !.day = gs.day + 1,
          !.co2ppm = Add(gs.co2ppm, DivC(gs.co2ppmDelta, 365)),
          !.globalTempDiff = Add(gs.globalTempDiff, DivC(gs.globalTempDiffDelta, 365)),
          !.continentSections =
            [i \in DOMAIN gs.continentSections |->
               updateContinentSection(gs, gs.continentSections[i])]]
  IN runExtensionPoints(extensionPoints, nextState)

\* A call of advanceDay that writes the next day into the object it received
\* and returns that object.
advanceDayInPlace(gs) == [argument |-> advanceDay(gs), returned |-> advanceDay(gs)]

\* A call of advanceDay: the state object it received, as it is after the
\* call, and the object it returned.  No line of advanceDay,
\* updateContinentSection, clampCSValues or the four calculate functions
\* assigns to gs, to a region of it or to a field of either: nextState and
\* the regions are new objects made with spread and map.
advanceDayCall(gs) == [argument |-> gs, returned |-> advanceDay(gs)]

(***************************************************************************)
(* Initializers for game state (types.ts, lines 120-373).                  *)
(***************************************************************************)

initialContinents ==
  <<
    \* Africa (types.ts line 149)
    [ name |-> "Africa", originalPopulation |-> 134059815, totalPopulation |-> 134059815,
      birthRate |-> 35910000, birthRateDelta |-> -410000, lifeExpectancy |-> 63200000,
      lifeExpectancyDelta |-> 460000, GDPCapita |-> 1930000, GDPCapitaMultiplier |-> 36000,
      happiness |-> 4571100, happinessDelta |-> 30420, foodIndex |-> 7100000,
      financeIndex |-> 200000, educationIndex |-> 4450000, techIndex |-> 4200000,
      techIndexDelta |-> 340000, diseaseIndex |-> 13600000, conflictLevel |-> 3600000,
      corruptionIndex |-> 586207, globalTempDiffSensitivity |-> 3600000,
      subRegions |-> <<>>,
      neighbors |-> <<"Europe", "Asia", "South America", "Antarctica">>,
      xywh |-> <<590, 380, 210, 280>> ],
    \* Asia (types.ts line 174)
    [ name |-> "Asia", originalPopulation |-> 449666795, totalPopulation |-> 449666795,
      birthRate |-> 21200000, birthRateDelta |-> -386000, lifeExpectancy |-> 73600000,
      lifeExpectancyDelta |-> 270000, GDPCapita |-> 7350000, GDPCapitaMultiplier |-> 61000,
      happiness |-> 5384300, happinessDelta |-> 17038, foodIndex |-> 8400000,
      financeIndex |-> 1500000, educationIndex |-> 6870000, techIndex |-> 7300000,
      techIndexDelta |-> 360000, diseaseIndex |-> 8100000, conflictLevel |-> 1900000,
      corruptionIndex |-> 528736, globalTempDiffSensitivity |-> 2400000,
      subRegions |-> <<>>,
      neighbors |-> <<"Africa", "Australia", "Europe", "North America", "Russia">>,
      xywh |-> <<800, 315, 360, 245>> ],
    \* Europe (types.ts line 199)
    [ name |-> "Europe", originalPopulation |-> 74763603, totalPopulation |-> 74763603,
      birthRate |-> 9900000, birthRateDelta |-> -152000, lifeExpectancy |-> 78600000,
      lifeExpectancyDelta |-> 230000, GDPCapita |-> 29410000,
      GDPCapitaMultiplier |-> 27000, happiness |-> 6584540, happinessDelta |-> 76500,
      foodIndex |-> 9700000, financeIndex |-> 6700000, educationIndex |-> 8230000,
      techIndex |-> 13600000, techIndexDelta |-> 340000, diseaseIndex |-> 4200000,
      conflictLevel |-> 1200000, corruptionIndex |-> 287356,
      globalTempDiffSensitivity |-> 1200000, subRegions |-> <<>>,
      neighbors |-> <<"Africa", "Asia", "North America", "Russia">>,
      xywh |-> <<600, 200, 170, 180>> ],
    \* North America (types.ts line 224)
    [ name |-> "North America", originalPopulation |-> 59207221,
      totalPopulation |-> 59207221, birthRate |-> 12800000, birthRateDelta |-> -240000,
      lifeExpectancy |-> 79200000, lifeExpectancyDelta |-> 30000, GDPCapita |-> 49240000,
      GDPCapitaMultiplier |-> 24000, happiness |-> 7085850, happinessDelta |-> -37600,
      foodIndex |-> 9520000, financeIndex |-> 8000000, educationIndex |-> 8950000,
      techIndex |-> 14000000, techIndexDelta |-> 350000, diseaseIndex |-> 3700000,
      conflictLevel |-> 1400000, corruptionIndex |-> 160920,
      globalTempDiffSensitivity |-> -400000, subRegions |-> <<>>,
      neighbors |-> <<"Asia", "Europe", "Central America", "Russia">>,
      xywh |-> <<130, 150, 380, 250>> ],
    \* Central America (types.ts line 249)
    [ name |-> "Central America", originalPopulation |-> 43075977,
      totalPopulation |-> 43075977, birthRate |-> 20970000, birthRateDelta |-> -320000,
      lifeExpectancy |-> 75100000, lifeExpectancyDelta |-> -20000, GDPCapita |-> 21363000,
      GDPCapitaMultiplier |-> 27000, happiness |-> 6304800, happinessDelta |-> -53000,
      foodIndex |-> 9060000, financeIndex |-> 5300000, educationIndex |-> 6780000,
      techIndex |-> 6900000, techIndexDelta |-> 290000, diseaseIndex |-> 5800000,
      conflictLevel |-> 1300000, corruptionIndex |-> 597701,
      globalTempDiffSensitivity |-> 1800000, subRegions |-> <<>>,
      neighbors |-> <<"North America", "South America">>, xywh |-> <<200, 400, 200, 90>> ],
    \* South America (types.ts line 274)
    [ name |-> "South America", originalPopulation |-> 43075977,
      totalPopulation |-> 43075977, birthRate |-> 15200000, birthRateDelta |-> -261000,
      lifeExpectancy |-> 73600000, lifeExpectancyDelta |-> 370000, GDPCapita |-> 8560000,
      GDPCapitaMultiplier |-> 12000, happiness |-> 6163400, happinessDelta |-> -21000,
      foodIndex |-> 9120000, financeIndex |-> 1790000, educationIndex |-> 6720000,
      techIndex |-> 7400000, techIndexDelta |-> 240000, diseaseIndex |-> 6400000,
      conflictLevel |-> 1100000, corruptionIndex |-> 505747,
      globalTempDiffSensitivity |-> 700000, subRegions |-> <<>>,
      neighbors |-> <<"Africa", "Central America", "Antarctica">>,
      xywh |-> <<350, 490, 170, 270>> ],
    \* Antarctica (types.ts line 299)
    [ name |-> "Antarctica", originalPopulation |-> 269, totalPopulation |-> 269,
      birthRate |-> 1300000, birthRateDelta |-> 24000, lifeExpectancy |-> 71700000,
      lifeExpectancyDelta |-> 130000, GDPCapita |-> 32000000,
      GDPCapitaMultiplier |-> 10000, happiness |-> 6528500, happinessDelta |-> -88000,
      foodIndex |-> 9100000, financeIndex |-> 7100000, educationIndex |-> 7840000,
      techIndex |-> 11000000, techIndexDelta |-> 200000, diseaseIndex |-> 3500000,
      conflictLevel |-> 200000, corruptionIndex |-> 252874,
      globalTempDiffSensitivity |-> -1600000, subRegions |-> <<>>,
      neighbors |-> <<"Africa", "South America">>, xywh |-> <<100, 800, 1180, 97>> ],
    \* Australia (types.ts line 324)
    [ name |-> "Australia", originalPopulation |-> 4267781, totalPopulation |-> 4267781,
      birthRate |-> 14500000, birthRateDelta |-> -240000, lifeExpectancy |-> 83400000,
      lifeExpectancyDelta |-> 150000, GDPCapita |-> 53220000,
      GDPCapitaMultiplier |-> 27000, happiness |-> 7252100, happinessDelta |-> -6000,
      foodIndex |-> 8400000, financeIndex |-> 8770000, educationIndex |-> 7770000,
      techIndex |-> 12600000, techIndexDelta |-> 170000, diseaseIndex |-> 7100000,
      conflictLevel |-> 0, corruptionIndex |-> 57471,
      globalTempDiffSensitivity |-> 1100000, subRegions |-> <<>>, neighbors |-> <<"Asia">>,
      xywh |-> <<1050, 560, 230, 150>> ],
    \* Russia (types.ts line 349)
    [ name |-> "Russia", originalPopulation |-> 14438683, totalPopulation |-> 14438683,
      birthRate |-> 12900000, birthRateDelta |-> 160000, lifeExpectancy |-> 71500000,
      lifeExpectancyDelta |-> 280000, GDPCapita |-> 30820000,
      GDPCapitaMultiplier |-> 25000, happiness |-> 5546000, happinessDelta |-> -34000,
      foodIndex |-> 9390000, financeIndex |-> 6400000, educationIndex |-> 8160000,
      techIndex |-> 9200000, techIndexDelta |-> 280000, diseaseIndex |-> 8100000,
      conflictLevel |-> 900000, corruptionIndex |-> 678161,
      globalTempDiffSensitivity |-> -4400000, subRegions |-> <<>>,
      neighbors |-> <<"Asia", "Europe", "North America">>, xywh |-> <<770, 170, 550, 145>> ]
  >>

initialGameState ==
  [ day |-> 0,
    gameSpeed |-> 1,
    globalBudget |-> 150000,             \* 1.5 * Math.pow(10, 8) dollars
    co2ppm |-> 415500000,
    co2ppmDelta |-> 2850000,
    globalTempDiff |-> 990000,
    globalTempDiffDelta |-> 39000,
    continentSections |-> initialContinents,
    selectedContinentName |-> undefined,
    lastMouseX |-> 0,
    lastMouseY |-> 0 ]

(***************************************************************************)
(* Interventions (existential-risk.ts, lines 66-148).                      *)
(***************************************************************************)

\* Shown when a continent is selected in game state
UIButtons ==
  << "Education reform", "Research grant", "Renewable energy grant",
     "Peacekeepers", "Financial boost", "Economic boost" >>

\* Math.pow(v, 1.5) * 100000 dollars for a real v in millionths, in
\* thousands of dollars.
PowThreeHalves(v) ==
  IF IsNaN(v) \/ v < 0 THEN NaN
  ELSE IF v = Infinity THEN Infinity
  ELSE LET v4 == DivC(v, S \div P)
       IN DivC(PowAcc(100 * P, 0, v4, 1, Root10(v4), 5), P)

costFunction(button, cs) ==
  CASE button = "Education reform" -> PowThreeHalves(cs.educationIndex)
    [] button = "Research grant" -> PowThreeHalves(cs.techIndex)
    [] button = "Renewable energy grant" -> 0
    [] button = "Peacekeepers" -> 0
    [] button = "Financial boost" ->
         MulDiv(DivC(cs.GDPCapita, 1000), cs.totalPopulation, 25000 * 100)
    [] button = "Economic boost" ->
         MulDiv(DivC(cs.GDPCapita, 1000), cs.totalPopulation, 2000 * 100)

\* onClick reads a field of its argument: a TypeError when that is undefined.
onClickThrows(button, cs) ==
  cs = noContinent /\ button \notin {"Renewable energy grant", "Peacekeepers"}

\* 'Education reform' with its result clamped.
educationReformClamped(cs) ==
  clampCSValues([cs EXCEPT !.educationIndex = Add(cs.educationIndex, Real(3, 10))])

\* onClick of 'Education reform' (lines 75-78).
educationReform(cs) ==
  [cs EXCEPT !.educationIndex = Add(cs.educationIndex, Real(3, 10))]

\* onClick of 'Research grant' (lines 88-92).
researchGrant(cs) ==
  [cs EXCEPT
    !.techIndex = Add(cs.techIndex, Mul(cs.educationIndex, Real(1, 100))),
    !.techIndexDelta = Add(cs.techIndexDelta, Mul(cs.educationIndex, Real(1, 100)))]

\* 'Financial boost' recomputing the finance index from the new GDPCapita.
financialBoostIndexed(cs) ==
  [cs EXCEPT
    !.GDPCapita = Mul(cs.GDPCapita, Real(100001, 100000)),
    !.happiness = Add(cs.happiness, Real(15, 100)),
    !.happinessDelta = Sub(cs.happinessDelta, Real(1, 100)),
    !.foodIndex = Add(cs.foodIndex, Mul(Sub(10 * S, cs.foodIndex), Real(1, 10))),
    !.financeIndex = calculateFinanceIndex(Mul(cs.GDPCapita, Real(100001, 100000)))]

\* onClick of 'Financial boost' (lines 121-134).
financialBoost(cs) ==
  [cs EXCEPT
    !.GDPCapita = Mul(cs.GDPCapita, Real(100001, 100000)),
    !.happiness = Add(cs.happiness, Real(15, 100)),
    !.happinessDelta = Sub(cs.happinessDelta, Real(1, 100)),
    !.foodIndex = Add(cs.foodIndex, Mul(Sub(10 * S, cs.foodIndex), Real(1, 10)))]

\* onClick of 'Economic boost' (lines 144-147).
economicBoost(cs) ==
  [cs EXCEPT !.GDPCapitaMultiplier = Add(cs.GDPCapitaMultiplier, Real(1, 100))]

onClick(button, cs) ==
  CASE button = "Education reform" -> educationReform(cs)
    [] button = "Research grant" -> researchGrant(cs)
    [] button = "Renewable energy grant" -> cs
    [] button = "Peacekeepers" -> cs
    [] button = "Financial boost" -> financialBoost(cs)
    [] button = "Economic boost" -> economicBoost(cs)

(***************************************************************************)
(* General utilities (render.ts, lines 243-302).                           *)
(***************************************************************************)

\* Check if the point's x-y is between the rectangle's corners
isWithinRectangle(point, rect) ==
  /\ point[1] > rect[1]
  /\ point[2] > rect[2]
  /\ point[1] < rect[1] + rect[3]
  /\ point[2] < rect[2] + rect[4]

\* state.continentSections.find(cs => cs.name === name), from position i on.
RECURSIVE findByName(_, _, _)
findByName(sections, name, i) ==
  IF i > Len(sections) THEN noContinent
  ELSE IF sections[i].name = name THEN sections[i]
  ELSE findByName(sections, name, i + 1)

getContinent(state, name) == findByName(state.continentSections, name, 1)

\* state.continentSections.find(cs => isWithinRectangle(point, cs.xywh)), from
\* position i on.
RECURSIVE findByPoint(_, _, _)
findByPoint(sections, point, i) ==
  IF i > Len(sections) THEN noContinent
  ELSE IF isWithinRectangle(point, sections[i].xywh) THEN sections[i]
  ELSE findByPoint(sections, point, i + 1)

getContinentWithinCoordinate(state, point) ==
  findByPoint(state.continentSections, point, 1)

\* Show selected (clicked) continent, or currently hovered one if none is selected
getSelectedContinent(state) ==
  IF state.selectedContinentName # undefined
    THEN getContinent(state, state.selectedContinentName)
    ELSE getContinentWithinCoordinate(state, <<state.lastMouseX, state.lastMouseY>>)

\* The rectangle of button i (0-based), as drawUIButtons draws it.
getButtonRect(i) ==
  << constants.buttonLeftX + (constants.buttonSize + 8) * i, 10,
     constants.buttonSize, constants.buttonSize >>

\* Array.prototype.indexOf from position i on, as a 1-based position; 0 for
\* the -1 of JavaScript.
RECURSIVE indexFrom(_, _, _)
indexFrom(seq, v, i) ==
  IF i > Len(seq) THEN 0
  ELSE IF seq[i] = v THEN i
  ELSE indexFrom(seq, v, i + 1)

indexOf(seq, v) == indexFrom(seq, v, 1)

(***************************************************************************)
(* Bounds of the model.                                                    *)
(***************************************************************************)

\* Ticks that run the clock are not taken once the day is MaxDay.
MaxDay == 1

\* Button clicks taken in one run.
MaxClicks == 4

\* Button clicks waiting for one tick.
MaxQueue == 2

\* Days taken by the game that runs against the wall clock.
MaxClockDay == 4

\* The inputs of the event handlers: mouse positions and keys.
ButtonPoint(i) == << getButtonRect(i)[1] + 20, getButtonRect(i)[2] + 20 >>
NorthAmericaPoint == <<300, 250>>
AfricaPoint == <<650, 450>>
OceanPoint == <<50, 700>>
MovePoints == { ButtonPoint(0), ButtonPoint(5), NorthAmericaPoint }
ClickPoints == { ButtonPoint(0), NorthAmericaPoint, OceanPoint }
SelectionPoints == { ButtonPoint(0), NorthAmericaPoint, AfricaPoint }
\* A key name (event.key) is the sequence of its characters: the keys 0, 1, a
\* and -, the space bar and the named key F1.
Keys == { <<"0">>, <<"1">>, <<"a">>, <<"-">>, <<" ">>, <<"F", "1">> }
ClockKeys == { <<"1">>, <<"2">>, <<"3">>, <<"9">> }

(***************************************************************************)
(* Game loop (existential-risk.ts, lines 169-248).                         *)
(***************************************************************************)

VARIABLES
  gs,                   \* let gs: GameState
  clickedButtons,       \* let clickedButtons: UIButton[]
  timeUntilDayAdvance,  \* let timeUntilDayAdvance
  lastStep,             \* how the last step ended: "rendered", or "threw" when a
                        \* TypeError left the callback; "none" before the first
                        \* step; the function's name after a function applied alone
  calls,                \* the extension points run by the last tick, or by the
                        \* last advanceDay applied alone
  clicks,               \* button clicks taken so far
  input,                \* the argument of the last function applied on its own
  processed,            \* clickedButtons when the last tick began
  clickedOn,            \* for each click in clickedButtons, the name of the
                        \* continent that was selected when it was made
  now                   \* the wall clock at the last tick, where it is observed

vars ==
  <<gs, clickedButtons, timeUntilDayAdvance, lastStep, calls, clicks, input,
    processed, clickedOn, now>>

timePerFrame == (1000 * TimeUnit) \div constants.FPS

nextDayMillis(state, timeAfterAdvanceMillis) ==
  ((constants.yearLengthMillis * TimeUnit) \div 365) \div state.gameSpeed
    - timeAfterAdvanceMillis

\* seq[i] = v storing the value one element further on.
setAtNext(seq, i, v) == [seq EXCEPT ![(i % Len(seq)) + 1] = v]

\* seq[i] = v of a JavaScript array; i = 0 stands for index -1, which sets a
\* property and leaves the elements alone.
setAt(seq, i, v) == IF i = 0 THEN seq ELSE [seq EXCEPT ![i] = v]

\* clickedButtons.forEach of lines 185-190: every button is applied to the
\* continent looked up before the loop.
RECURSIVE forEachButton(_, _, _, _)
forEachButton(state, buttons, selectedContinent, selectedContinentIndex) ==
  IF buttons = <<>> THEN [gs |-> state, threw |-> FALSE]
  ELSE IF onClickThrows(Head(buttons), selectedContinent)
    THEN [gs |-> state, threw |-> TRUE]
  ELSE LET nextContinent == onClick(Head(buttons), selectedContinent)
       IN forEachButton(
            [state EXCEPT !.continentSections =
               setAt(@, selectedContinentIndex, nextContinent)],
            Tail(buttons), selectedContinent, selectedContinentIndex)

\* performButtonEvents leaving the queued buttons for after the day advance.
performButtonEventsLater(state, buttons) == [gs |-> state, threw |-> FALSE]

\* Perform button events on current state (lines 180-192).
performButtonEvents(state, buttons) ==
  IF Len(buttons) > 0
    THEN LET selectedContinent == getSelectedContinent(state)
             selectedContinentIndex == indexOf(state.continentSections, selectedContinent)
         IN forEachButton(state, buttons, selectedContinent, selectedContinentIndex)
    ELSE [gs |-> state, threw |-> FALSE]

Init ==
  /\ gs = initialGameState
  /\ clickedButtons = <<>>
  /\ timeUntilDayAdvance = nextDayMillis(initialGameState, 0)
  /\ lastStep = "none"
  /\ calls = <<>>
  /\ clicks = 0
  /\ input = initialGameState
  /\ processed = <<>>
  /\ clickedOn = <<>>
  /\ now = 0

\* The clock running also while the game is paused.
runningAlways(state) == state.gameSpeed >= 0

\* If gameSpeed > 0, advance state for day changes (line 195).
running(state) == state.gameSpeed > 0

\* The setInterval callback (lines 178-204), in a run of at most maxDay days.
setIntervalCallback(maxDay) ==
  LET done == performButtonEvents(gs, clickedButtons)
      elapsed == timeUntilDayAdvance - timePerFrame
      advance == running(done.gs) /\ elapsed < 0
  IN /\ processed' = clickedButtons
     /\ UNCHANGED <<clicks, input>>
     /\ IF done.threw
          THEN /\ gs' = done.gs
               /\ lastStep' = "threw"
               /\ calls' = <<>>
               /\ UNCHANGED <<clickedButtons, clickedOn, timeUntilDayAdvance>>
          ELSE /\ running(done.gs) => done.gs.day < maxDay
               /\ clickedButtons' = <<>>
               /\ clickedOn' = <<>>
               /\ timeUntilDayAdvance' =
                    IF advance THEN nextDayMillis(done.gs, elapsed)
                    ELSE IF running(done.gs) THEN elapsed
                    ELSE timeUntilDayAdvance
               /\ gs' = IF advance THEN advanceDay(done.gs) ELSE done.gs
               /\ calls' = IF advance THEN extensionPoints ELSE <<>>
               /\ lastStep' = "rendered"

\* A tick of the game under the user's inputs.
Tick == setIntervalCallback(MaxDay) /\ UNCHANGED now

\* A tick of the game observed against the wall clock: the callback runs
\* every timePerFrame.
ClockTick == setIntervalCallback(MaxClockDay) /\ now' = now + timePerFrame

\* Get mouse position and store it in game state (lines 208-213).
MouseMove(point) ==
  /\ gs' = [gs EXCEPT !.lastMouseX = point[1], !.lastMouseY = point[2]]
  /\ UNCHANGED <<clickedButtons, timeUntilDayAdvance, lastStep, calls, clicks, input,
                  processed, clickedOn, now>>

\* The buttons under the stored mouse position, in UIButtons order.
RECURSIVE buttonsUnderMouse(_, _)
buttonsUnderMouse(state, i) ==
  IF i >= Len(UIButtons) THEN <<>>
  ELSE (IF isWithinRectangle(<<state.lastMouseX, state.lastMouseY>>, getButtonRect(i))
          THEN <<UIButtons[i + 1]>> ELSE <<>>)
       \o buttonsUnderMouse(state, i + 1)

\* On left click handle map selection and taking actions (lines 216-234).
mousedown(point) ==
  LET x == point[1]
      y == point[2]
      pushed == buttonsUnderMouse(gs, 0)
  IN /\ UNCHANGED <<timeUntilDayAdvance, lastStep, calls, input, processed, now>>
     /\ IF y < constants.topPanelHeight \/ x > constants.mapWidth
          THEN /\ Len(clickedButtons) + Len(pushed) <= MaxQueue
               /\ clicks + Len(pushed) <= MaxClicks
               /\ clickedButtons' = clickedButtons \o pushed
               /\ clicks' = clicks + Len(pushed)
               /\ UNCHANGED gs
          ELSE /\ gs' = [gs EXCEPT !.selectedContinentName =
                                     getContinentWithinCoordinate(gs, <<x, y>>).name]
               /\ UNCHANGED <<clickedButtons, clicks>>

\* A left click of the game under the user's inputs.
MouseDown(point) == mousedown(point) /\ UNCHANGED clickedOn

\* A left click observed with the selection it was made under: each click it
\* queues is noted with the name of the continent selected at that moment.
SelectionClick(point) ==
  /\ mousedown(point)
  /\ clickedOn' =
       clickedOn \o [k \in 1 .. Len(clickedButtons') - Len(clickedButtons) |->
                       getSelectedContinent(gs).name]

\* Clear continent selection on right click (lines 237-240).
ContextMenu ==
  /\ gs' = [gs EXCEPT !.selectedContinentName = undefined]
  /\ UNCHANGED <<clickedButtons, timeUntilDayAdvance, lastStep, calls, clicks, input,
                  processed, clickedOn, now>>

\* The decimal digits, and the value of one.
DecimalDigits == << "0", "1", "2", "3", "4", "5", "6", "7", "8", "9" >>
isDigit(char) == \E d \in 1 .. 10 : DecimalDigits[d] = char
digitValue(char) == (CHOOSE d \in 1 .. 10 : DecimalDigits[d] = char) - 1

\* The value of the longest prefix of digits of chars, after the digits whose
\* value is number; NaN if there is no digit at all.
RECURSIVE parseDigits(_, _, _)
parseDigits(chars, number, any) ==
  IF chars # <<>> /\ isDigit(Head(chars))
    THEN parseDigits(Tail(chars), 10 * number + digitValue(Head(chars)), TRUE)
    ELSE IF any THEN number ELSE NaN

\* The string without its leading white space.
RECURSIVE trimStart(_)
trimStart(chars) ==
  IF chars # <<>> /\ Head(chars) = " " THEN trimStart(Tail(chars)) ELSE chars

\* parseInt(string), radix 10: leading white space is skipped, a sign is
\* taken, and the longest prefix of digits gives the value; NaN if there is
\* none.
parseSigned(chars) ==
  IF chars # <<>> /\ Head(chars) = "-" THEN Neg(parseDigits(Tail(chars), 0, FALSE))
  ELSE IF chars # <<>> /\ Head(chars) = "+" THEN parseDigits(Tail(chars), 0, FALSE)
  ELSE parseDigits(chars, 0, FALSE)

\* parseInt(string, 16) for the keys of the model: the key a is a digit.
parseIntHex(key) == IF key = <<"a">> THEN 10 ELSE parseSigned(trimStart(key))

parseInt(key) == parseSigned(trimStart(key))

\* Speedup the game if numeric key is pressed (lines 243-247).
KeyDown(key) ==
  /\ gs' = IF ~IsNaN(parseInt(key)) THEN [gs EXCEPT !.gameSpeed = parseInt(key)] ELSE gs
  /\ UNCHANGED <<clickedButtons, timeUntilDayAdvance, lastStep, calls, clicks, input,
                  processed, clickedOn, now>>

Next ==
  \/ Tick
  \/ \E point \in MovePoints : MouseMove(point)
  \/ \E point \in ClickPoints : MouseDown(point)
  \/ ContextMenu
  \/ \E key \in Keys : KeyDown(key)

Spec == Init /\ [][Next]_vars

\* The game under weak fairness of the tick: setInterval keeps calling the
\* callback.
SpecLive == Spec /\ WF_vars(Tick)

\* The game at a constant gameSpeed, observed against the wall clock: the
\* speed is chosen before the first tick and no other input arrives.
NextClock ==
  \/ ClockTick
  \/ lastStep = "none" /\ \E key \in ClockKeys : KeyDown(key)

SpecClock == Init /\ [][NextClock]_vars

\* The game with the selection of every queued click observed: the mouse goes
\* to a button, left clicks fall on the button and on two continents, and
\* right clicks clear the selection.
NextSelection ==
  \/ Tick
  \/ MouseMove(ButtonPoint(0))
  \/ \E point \in SelectionPoints : SelectionClick(point)
  \/ ContextMenu

SpecSelection == Init /\ [][NextSelection]_vars

(***************************************************************************)
(* advanceDay, clampCSValues and the buttons' onClick applied on their     *)
(* own, to world states whose regions may lie outside the clamp ranges.    *)
(***************************************************************************)

\* A region with every clamped field just below its range.
belowRange(cs) ==
  [cs EXCEPT
    !.totalPopulation = -1,
    !.birthRate = -1,
    !.birthRateDelta = -10 * S - 1,
    !.lifeExpectancy = 15 * S - 1,
    !.lifeExpectancyDelta = -10 * S - 1,
    !.GDPCapita = 827 * 1000 - 1,
    !.GDPCapitaMultiplier = -Real(4, 10) - 1,
    !.happiness = -1,
    !.happinessDelta = -6 * S - 1,
    !.foodIndex = -1,
    !.financeIndex = -1,
    !.educationIndex = -1,
    !.techIndex = -1,
    !.techIndexDelta = -5 * S - 1,
    !.diseaseIndex = -1,
    !.conflictLevel = -1,
    !.corruptionIndex = -1,
    !.globalTempDiffSensitivity = -5 * S - 1]

\* A region with every clamped field just above its range; GDPCapita, whose
\* upper bound is out of reach, is a million dollars.
aboveRange(cs) ==
  [cs EXCEPT
    !.totalPopulation = constants.maxPopulation + 1,
    !.birthRate = 200 * S + 1,
    !.birthRateDelta = 10 * S + 1,
    !.lifeExpectancy = 250 * S + 1,
    !.lifeExpectancyDelta = 50 * S + 1,
    !.GDPCapita = 1000 * S,
    !.GDPCapitaMultiplier = Real(8, 10) + 1,
    !.happiness = 10 * S + 1,
    !.happinessDelta = 6 * S + 1,
    !.foodIndex = 10 * S + 1,
    !.financeIndex = 10 * S + 1,
    !.educationIndex = 10 * S + 1,
    !.techIndex = 100 * S + 1,
    !.techIndexDelta = 50 * S + 1,
    !.diseaseIndex = 100 * S + 1,
    !.conflictLevel = 10 * S + 1,
    !.corruptionIndex = 1 * S + 1,
    !.globalTempDiffSensitivity = 5 * S + 1]

\* A region in debt: its GDPCapita is negative.
inDebt(cs) == [cs EXCEPT !.GDPCapita = -cs.GDPCapita]

\* A region without people, whose lifeExpectancy is zero.
deserted(cs) == [cs EXCEPT !.totalPopulation = 0, !.lifeExpectancy = 0]

\* A region whose GDPCapita is 70000 dollars, where the finance index is cut
\* off, and one a dollar above.
atFinanceCap(cs) == [cs EXCEPT !.GDPCapita = 70000 * 1000]
pastFinanceCap(cs) == [cs EXCEPT !.GDPCapita = 70001 * 1000]

RegionVariants(cs) ==
  { cs, belowRange(cs), aboveRange(cs), inDebt(cs), deserted(cs),
    atFinanceCap(cs), pastFinanceCap(cs) }

\* Africa, North America and Australia.
VariedRegions == { 1, 4, 8 }

\* The fields of the world that advanceDay reads or passes on: the seed's,
\* and a world with falling co2ppm and temperature, a faster clock, a spent
\* budget, a selected continent and a moved mouse.
Settings ==
  { [ gameSpeed |-> initialGameState.gameSpeed,
      globalBudget |-> initialGameState.globalBudget,
      co2ppmDelta |-> initialGameState.co2ppmDelta,
      globalTempDiffDelta |-> initialGameState.globalTempDiffDelta,
      selectedContinentName |-> initialGameState.selectedContinentName,
      lastMouseX |-> initialGameState.lastMouseX,
      lastMouseY |-> initialGameState.lastMouseY ],
    [ gameSpeed |-> 3,
      globalBudget |-> 1000,
      co2ppmDelta |-> -Real(15, 10),
      globalTempDiffDelta |-> -Real(2, 100),
      selectedContinentName |-> "Africa",
      lastMouseX |-> 300,
      lastMouseY |-> 250 ] }

\* The seed world on day d with the settings s and region i replaced by cs.
World(d, s, i, cs) ==
  [initialGameState EXCEPT
    !.day = d,
    !.gameSpeed = s.gameSpeed,
    !.globalBudget = s.globalBudget,
    !.co2ppmDelta = s.co2ppmDelta,
    !.globalTempDiffDelta = s.globalTempDiffDelta,
    !.selectedContinentName = s.selectedContinentName,
    !.lastMouseX = s.lastMouseX,
    !.lastMouseY = s.lastMouseY,
    !.continentSections[i] = cs]

\* The world states the functions are applied to.
Worlds ==
  UNION { { World(d, s, i, cs) :
              d \in 0 .. MaxDay - 1,
              s \in Settings,
              cs \in RegionVariants(initialGameState.continentSections[i]) } :
          i \in VariedRegions }

InitWorld ==
  /\ gs \in Worlds
  /\ clickedButtons = <<>>
  /\ timeUntilDayAdvance = nextDayMillis(initialGameState, 0)
  /\ lastStep = "none"
  /\ calls = <<>>
  /\ clicks = 0
  /\ input = gs
  /\ processed = <<>>
  /\ clickedOn = <<>>
  /\ now = 0

\* gs = advanceDay(gs), as line 200 calls it; input is the object that was
\* passed, after the call.
AdvanceDay ==
  /\ gs.day < MaxDay
  /\ input' = advanceDayCall(gs).argument
  /\ gs' = advanceDayCall(gs).returned
  /\ calls' = extensionPoints
  /\ lastStep' = "advanceDay"
  /\ UNCHANGED <<clickedButtons, timeUntilDayAdvance, clicks, processed, clickedOn, now>>

\* clampCSValues applied to every region.
ClampCSValues ==
  /\ input' = gs
  /\ gs' = [gs EXCEPT !.continentSections =
              [i \in DOMAIN @ |-> clampCSValues(@[i])]]
  /\ lastStep' = "clampCSValues"
  /\ UNCHANGED <<clickedButtons, timeUntilDayAdvance, calls, clicks, processed, clickedOn, now>>

\* Buttons applied on their own in one run.
MaxApplied == 1

\* button.onClick applied to the selected continent, and the result stored in
\* its place, as lines 187-188 do for one button.
OnClick(button) ==
  LET selectedContinent == getSelectedContinent(gs)
  IN /\ clicks < MaxApplied
     /\ selectedContinent # noContinent
     /\ input' = gs
     /\ processed' = <<button>>
     /\ gs' = [gs EXCEPT !.continentSections =
                 setAt(@, indexOf(@, selectedContinent), onClick(button, selectedContinent))]
     /\ clicks' = clicks + 1
     /\ lastStep' = "onClick"
     /\ UNCHANGED <<clickedButtons, timeUntilDayAdvance, calls, clickedOn, now>>

NextWorld ==
  \/ AdvanceDay
  \/ ClampCSValues
  \/ \E k \in DOMAIN UIButtons : OnClick(UIButtons[k])

SpecWorld == InitWorld /\ [][NextWorld]_vars

(***************************************************************************)
(* Properties.                                                             *)
(***************************************************************************)

\* lo <= v <= hi of JavaScript numbers: false for NaN.
Within(lo, hi, v) == Ge(v, lo) /\ Le(v, hi)

\* Every clamped field of the region lies in the range of the bounds table.
InClampRange(cs) ==
  /\ Within(0, constants.maxPopulation, cs.totalPopulation)
  /\ Within(0, 200 * S, cs.birthRate)
  /\ Within(-10 * S, 10 * S, cs.birthRateDelta)
  /\ Within(15 * S, 250 * S, cs.lifeExpectancy)
  /\ Within(-10 * S, 50 * S, cs.lifeExpectancyDelta)
  /\ Within(827 * 1000, maxGDPCapita, cs.GDPCapita)
  /\ Within(-Real(4, 10), Real(8, 10), cs.GDPCapitaMultiplier)
  /\ Within(0, 10 * S, cs.happiness)
  /\ Within(-6 * S, 6 * S, cs.happinessDelta)
  /\ Within(0, 10 * S, cs.foodIndex)
  /\ Within(0, 10 * S, cs.financeIndex)
  /\ Within(0, 10 * S, cs.educationIndex)
  /\ Within(0, 100 * S, cs.techIndex)
  /\ Within(-5 * S, 50 * S, cs.techIndexDelta)
  /\ Within(0, 100 * S, cs.diseaseIndex)
  /\ Within(0, 10 * S, cs.conflictLevel)
  /\ Within(0, 1 * S, cs.corruptionIndex)
  /\ Within(-5 * S, 5 * S, cs.globalTempDiffSensitivity)

AllInClampRange(state) ==
  \A i \in DOMAIN state.continentSections : InClampRange(state.continentSections[i])

\* The step is a tick: only a tick changes lastStep, the timer, processed or
\* calls, or empties the queue.
TickTaken ==
  \/ lastStep' # lastStep
  \/ timeUntilDayAdvance' # timeUntilDayAdvance
  \/ clickedButtons # <<>> /\ clickedButtons' = <<>>
  \/ processed' # processed
  \/ calls' # calls

\* The step is a tick that ran the queued interventions and no day advance:
\* the world after it is the world after the intervention step.
InterventionStep ==
  /\ clickedButtons # <<>>
  /\ clickedButtons' = <<>>
  /\ gs'.day = gs.day

\* b_k.onClick(... b_1.onClick(r) ...) for the buttons b_1 .. b_k.
RECURSIVE applyInTurn(_, _)
applyInTurn(buttons, r) ==
  IF buttons = <<>> THEN r
  ELSE applyInTurn(Tail(buttons), onClick(Head(buttons), r))

\* C1: for every world state, out-of-range regions included, every region of
\* advanceDay of it has each clamped field inside its range.
C1_AdvanceDayWithinRanges == AllInClampRange(advanceDay(gs))

\* C2: in the state handed to render at the end of every tick, every clamped
\* field of every region is inside its range, also when the tick applied
\* interventions and advanced no day.
C2_RenderedWithinRanges == lastStep = "rendered" => AllInClampRange(gs)

\* C3: clampCSValues is idempotent: clamping a clamped region changes no
\* field of it.
C3_ClampIdempotent ==
  \A i \in DOMAIN gs.continentSections :
    LET r == gs.continentSections[i]
    IN clampCSValues(clampCSValues(r)) = clampCSValues(r)

\* A region outside its ranges has been clamped, the clamp changed it, and
\* clamping the result once more returns the result.
C3_Witness ==
  /\ lastStep = "clampCSValues"
  /\ \E i \in DOMAIN gs.continentSections :
       /\ ~InClampRange(input.continentSections[i])
       /\ gs.continentSections[i] = clampCSValues(input.continentSections[i])
       /\ gs.continentSections[i] # input.continentSections[i]
       /\ clampCSValues(gs.continentSections[i]) = gs.continentSections[i]

\* C4: for every world state w, the day of advanceDay(w) is the day of w plus
\* one.
C4_DayAdvancesByOne == advanceDay(gs).day = gs.day + 1

\* advanceDay has been applied to a world, and the day of the result is one
\* more than the day of that world.
C4_Witness ==
  /\ lastStep = "advanceDay"
  /\ gs = advanceDay(input)
  /\ gs.day = input.day + 1

\* C5: for every world state w, co2ppm and globalTempDiff of advanceDay(w) are
\* those of w plus a 365th of the yearly change that w holds.
C5_GlobalScalarUpdate ==
  /\ advanceDay(gs).co2ppm = Add(gs.co2ppm, DivC(gs.co2ppmDelta, 365))
  /\ advanceDay(gs).globalTempDiff =
       Add(gs.globalTempDiff, DivC(gs.globalTempDiffDelta, 365))

\* advanceDay has been applied to a world with falling co2ppm and temperature:
\* both went down by a 365th of the yearly change of that world.
C5_Witness ==
  /\ lastStep = "advanceDay"
  /\ input.co2ppmDelta < 0
  /\ input.globalTempDiffDelta < 0
  /\ gs.co2ppm = input.co2ppm + DivC(input.co2ppmDelta, 365)
  /\ gs.co2ppm < input.co2ppm
  /\ gs.globalTempDiff = input.globalTempDiff + DivC(input.globalTempDiffDelta, 365)
  /\ gs.globalTempDiff < input.globalTempDiff

\* C6: advanceDay runs calculateEmigrations, calculateConflicts,
\* calculateIndices and calculateEvents in that order on the world with the
\* mapped regions, each returns its argument, and advanceDay leaves gameSpeed,
\* globalBudget, co2ppmDelta, globalTempDiffDelta, selectedContinentName and
\* the stored mouse position as they are in its argument.
C6_ExtensionPointsAndFrame ==
  LET next == advanceDay(gs)
  IN /\ extensionPoints = << "calculateEmigrations", "calculateConflicts",
                             "calculateIndices", "calculateEvents" >>
     /\ lastStep = "advanceDay" => calls = extensionPoints
     /\ \A name \in { extensionPoints[k] : k \in DOMAIN extensionPoints } :
          /\ callExtensionPoint(name, gs) = gs
          /\ callExtensionPoint(name, next) = next
     /\ next.continentSections =
          [i \in DOMAIN gs.continentSections |->
             updateContinentSection(gs, gs.continentSections[i])]
     /\ next.gameSpeed = gs.gameSpeed
     /\ next.globalBudget = gs.globalBudget
     /\ next.co2ppmDelta = gs.co2ppmDelta
     /\ next.globalTempDiffDelta = gs.globalTempDiffDelta
     /\ next.selectedContinentName = gs.selectedContinentName
     /\ next.lastMouseX = gs.lastMouseX
     /\ next.lastMouseY = gs.lastMouseY

\* advanceDay has been applied to a world with a selected continent, a moved
\* mouse and a budget and clock that are not the seed's: the four extension
\* points ran in order, the regions changed, and those fields did not.
C6_Witness ==
  /\ lastStep = "advanceDay"
  /\ calls = << "calculateEmigrations", "calculateConflicts",
                "calculateIndices", "calculateEvents" >>
  /\ input.selectedContinentName = "Africa"
  /\ input.gameSpeed = 3
  /\ gs.continentSections # input.continentSections
  /\ gs.gameSpeed = input.gameSpeed
  /\ gs.globalBudget = input.globalBudget
  /\ gs.co2ppmDelta = input.co2ppmDelta
  /\ gs.globalTempDiffDelta = input.globalTempDiffDelta
  /\ gs.selectedContinentName = input.selectedContinentName
  /\ gs.lastMouseX = input.lastMouseX
  /\ gs.lastMouseY = input.lastMouseY

\* C7: a tick that processes queued interventions whose cost for the selected
\* region is above globalBudget rejects them: globalBudget and the regions
\* are after the intervention step what they were before it.
C7_UnaffordableRejected ==
  [][ ( /\ InterventionStep
        /\ getSelectedContinent(gs) # noContinent
        /\ \A k \in DOMAIN clickedButtons :
             Gt(costFunction(clickedButtons[k], getSelectedContinent(gs)),
                gs.globalBudget) )
      => /\ gs'.globalBudget = gs.globalBudget
         /\ gs'.continentSections = gs.continentSections ]_vars

\* C8: a tick that applies one queued intervention, which the budget covers,
\* to the selected region r takes costFunction(r) off globalBudget and puts
\* onClick(r) in the place of r in continentSections.
C8_BudgetCharged ==
  [][ ( /\ InterventionStep
        /\ Len(clickedButtons) = 1
        /\ getSelectedContinent(gs) # noContinent
        /\ Le(costFunction(clickedButtons[1], getSelectedContinent(gs)),
              gs.globalBudget) )
      => LET r == getSelectedContinent(gs)
             b == clickedButtons[1]
         IN /\ gs'.globalBudget = Sub(gs.globalBudget, costFunction(b, r))
            /\ gs'.continentSections =
                 setAt(gs.continentSections, indexOf(gs.continentSections, r),
                       onClick(b, r)) ]_vars

\* C9: a tick that processes two or more queued interventions b1 .. bk leaves
\* the selected region r as bk.onClick(... b1.onClick(r) ...): each one is
\* applied to the result of the one before it.
C9_QueuedInterventionsCompose ==
  [][ ( /\ InterventionStep
        /\ Len(clickedButtons) >= 2
        /\ getSelectedContinent(gs) # noContinent )
      => LET r == getSelectedContinent(gs)
         IN gs'.continentSections =
              setAt(gs.continentSections, indexOf(gs.continentSections, r),
                    applyInTurn(clickedButtons, r)) ]_vars

\* C10: a tick that finds queued interventions and no selected region raises
\* no exception: it empties the queue, goes on to its day advance and render,
\* and without a day advance leaves the world as it was.
C10_NoSelectionIsNoOp ==
  [][ ( /\ TickTaken
        /\ clickedButtons # <<>>
        /\ getSelectedContinent(gs) = noContinent )
      => /\ lastStep' = "rendered"
         /\ clickedButtons' = <<>>
         /\ gs'.day = gs.day => gs' = gs ]_vars

\* The step is a tick that found queued interventions and a region to apply
\* them to, and ran to its render.
AppliedStep ==
  /\ clickedButtons # <<>>
  /\ clickedButtons' = <<>>
  /\ getSelectedContinent(gs) # noContinent

\* C11: in a tick that has queued interventions and crosses a day boundary,
\* advanceDay receives the state that the intervention step left: the region
\* after the tick is updateContinentSection of the post-intervention region,
\* which for one queued button b and the selected region r is b.onClick(r).
C11_InterventionsBeforeDayAdvance ==
  [][ ( AppliedStep /\ gs'.day = gs.day + 1 )
      => LET r == getSelectedContinent(gs)
             i == indexOf(gs.continentSections, r)
             post == performButtonEvents(gs, clickedButtons).gs
         IN /\ gs'.continentSections[i] =
                 updateContinentSection(post, post.continentSections[i])
            /\ Len(clickedButtons) = 1 =>
                 gs'.continentSections[i] =
                   updateContinentSection(gs, onClick(clickedButtons[1], r)) ]_vars

\* The one click of the run, on 'Education reform', was processed by the tick
\* that advanced the day: North America is the updateContinentSection of the
\* seed region with its educationIndex raised.
C11_Witness ==
  /\ lastStep = "rendered"
  /\ processed = <<"Education reform">>
  /\ calls = extensionPoints
  /\ clicks = 1
  /\ gs.day = 1
  /\ gs.continentSections[4] =
       updateContinentSection(initialGameState,
         onClick("Education reform", initialGameState.continentSections[4]))
  /\ gs.continentSections[4] #
       updateContinentSection(initialGameState, initialGameState.continentSections[4])

\* C12: a tick taken while gameSpeed is 0 calls no advanceDay: day, co2ppm,
\* globalTempDiff, the timer and every region the queue does not touch stay as
\* they are; the queued interventions are still applied, one queued button b
\* putting b.onClick(r) in the place of the selected region r.
C12_PausedTicksStillApply ==
  [][ ( TickTaken /\ gs.gameSpeed = 0 )
      => /\ calls' = <<>>
         /\ timeUntilDayAdvance' = timeUntilDayAdvance
         /\ gs' = [gs EXCEPT !.continentSections =
                     performButtonEvents(gs, clickedButtons).gs.continentSections]
         /\ ( AppliedStep /\ Len(clickedButtons) = 1 ) =>
              LET r == getSelectedContinent(gs)
              IN gs'.continentSections =
                   setAt(gs.continentSections, indexOf(gs.continentSections, r),
                         onClick(clickedButtons[1], r)) ]_vars

\* The last tick rendered without running the clock, which has never run, and
\* it processed the one click of the run: North America has the raised
\* educationIndex on day 0 of a paused game.
C12_Witness ==
  /\ lastStep = "rendered"
  /\ gs.gameSpeed = 0
  /\ timeUntilDayAdvance = nextDayMillis(initialGameState, 0)
  /\ processed = <<"Education reform">>
  /\ clicks = 1
  /\ gs.day = 0
  /\ gs.continentSections[4] =
       onClick("Education reform", initialGameState.continentSections[4])
  /\ gs.continentSections[4] # initialGameState.continentSections[4]

\* C13: there is no stuck state: whatever the inputs, when ticks keep firing
\* and gameSpeed stays above 0 from some point on, the day counter increases
\* again (from every day below the bound of the model), and every tick
\* reaches its render step.
C13_NoStuckState ==
  /\ [][TickTaken => lastStep' = "rendered"]_vars
  /\ \A d \in 0 .. MaxDay - 1 :
       (<>[](gs.gameSpeed > 0)) => ((gs.day = d) ~> (gs.day > d))

\* C14: at a constant gameSpeed N the k-th day advance happens within one
\* tick after the wall-clock time k * yearLengthMillis / (365 * N).
C14_NoCumulativeDrift ==
  ( lastStep = "rendered" /\ calls # <<>> )
    => /\ now >= gs.day * nextDayMillis(gs, 0)
       /\ now <= gs.day * nextDayMillis(gs, 0) + timePerFrame

\* The regions a and b have the same fields, with the same values but for
\* the fields named.
EqualBut(a, b, fields) ==
  /\ DOMAIN a = DOMAIN b
  /\ \A f \in DOMAIN b \ fields : a[f] = b[f]

\* C15: 'Education reform' applied to a region r returns a region whose
\* educationIndex is r.educationIndex + 0.3 and whose every other field is
\* that of r.
C15_EducationReformIsolated ==
  \A i \in DOMAIN gs.continentSections :
    LET r == gs.continentSections[i]
    IN /\ onClick("Education reform", r).educationIndex =
            Add(r.educationIndex, Real(3, 10))
       /\ EqualBut(onClick("Education reform", r), r, {"educationIndex"})

\* 'Education reform' has been applied to a region whose fields are outside
\* their ranges: its educationIndex went up by 0.3, beyond 10, and no other
\* field changed.
C15_Witness ==
  /\ lastStep = "onClick"
  /\ processed = <<"Education reform">>
  /\ \E i \in DOMAIN gs.continentSections :
       /\ ~InClampRange(input.continentSections[i])
       /\ gs.continentSections[i].educationIndex =
            input.continentSections[i].educationIndex + Real(3, 10)
       /\ gs.continentSections[i].educationIndex > 10 * S
       /\ EqualBut(gs.continentSections[i], input.continentSections[i], {"educationIndex"})

\* The fields that the onClick of each button declares to change.
declaredFields(button) ==
  CASE button = "Education reform" -> {"educationIndex"}
    [] button = "Research grant" -> {"techIndex", "techIndexDelta"}
    [] button = "Renewable energy grant" -> {}
    [] button = "Peacekeepers" -> {}
    [] button = "Financial boost" ->
         {"GDPCapita", "happiness", "happinessDelta", "foodIndex"}
    [] button = "Economic boost" -> {"GDPCapitaMultiplier"}

reverseOrder(sections) == [k \in 1 .. Len(sections) |-> Len(sections) + 1 - k]

\* The array that results from visiting the regions of the pre-step world in
\* the given order, each visit storing the update of one region.
RECURSIVE visit(_, _, _)
visit(world, order, result) ==
  IF order = <<>> THEN result
  ELSE visit(world, Tail(order),
             [result EXCEPT ![Head(order)] =
                updateContinentSection(world, world.continentSections[Head(order)])])

\* The ways in which the other regions of a world are replaced.
Replacements == { "belowRange", "aboveRange", "deserted" }

replacement(way, cs) ==
  CASE way = "belowRange" -> belowRange(cs)
    [] way = "aboveRange" -> aboveRange(cs)
    [] way = "deserted" -> deserted(cs)

\* The world with every region but region i replaced.
othersReplaced(world, i, way) ==
  [world EXCEPT
    !.continentSections =
      [k \in DOMAIN world.continentSections |->
         IF k = i THEN world.continentSections[k]
         ELSE replacement(way, world.continentSections[k])]]

\* next, the result of advanceDay for the world, does not depend on the other
\* regions of the world or on the order of the visits.
independent(world, next) ==
  /\ \A i \in DOMAIN next :
       \A way \in Replacements :
         advanceDay(othersReplaced(world, i, way)).continentSections[i] = next[i]
  /\ visit(world, reverseOrder(world.continentSections), world.continentSections)
       = next

\* C17: in advanceDay the next state of a region depends on that region and
\* on the pre-step world only: replacing every other region of the input by
\* one with other values in its fields leaves the result for this region as
\* it was, and so does visiting the regions in the opposite order.
C17_RegionUpdateIndependent ==
  independent(gs, advanceDay(gs).continentSections)

\* advanceDay has been applied to a world whose first region had left its
\* ranges, and the result for North America is the one of the seed world.
C17_Witness ==
  /\ lastStep = "advanceDay"
  /\ input.continentSections[1] = belowRange(initialGameState.continentSections[1])
  /\ input.continentSections[4] = initialGameState.continentSections[4]
  /\ gs.continentSections[4] # input.continentSections[4]
  /\ gs.continentSections[4] =
       advanceDay(initialGameState).continentSections[4]

\* The names of the regions of an array, in the order of the array.
names(sections) == [k \in DOMAIN sections |-> sections[k].name]

seedNames ==
  << "Africa", "Asia", "Europe", "North America", "Central America",
     "South America", "Antarctica", "Australia", "Russia" >>

\* The state with no continent selected and the mouse over button i.
unselected(state, i) ==
  [state EXCEPT !.selectedContinentName = undefined,
                !.lastMouseX = ButtonPoint(i)[1],
                !.lastMouseY = ButtonPoint(i)[2]]

\* C18: in every reachable state continentSections holds the nine seed
\* regions, each name once, in the seed order; and the button step keeps them
\* also when a button whose onClick reads nothing of the region is applied
\* with no continent selected, where the array is written at index -1.
C18_SeedRegionsInSeedOrder ==
  /\ names(initialGameState.continentSections) = seedNames
  /\ names(gs.continentSections) = seedNames
  /\ \A i \in 0 .. Len(UIButtons) - 1 :
       LET done == performButtonEvents(unselected(gs, i), <<UIButtons[i + 1]>>)
       IN names(done.gs.continentSections) = seedNames

\* A tick has applied an intervention to a region and advanced the day, and
\* the region is in its place.
C18_Witness ==
  /\ lastStep = "rendered"
  /\ processed # <<>>
  /\ calls = extensionPoints
  /\ gs.day > 0
  /\ \E i \in DOMAIN gs.continentSections :
       /\ gs.continentSections[i].educationIndex
            # initialGameState.continentSections[i].educationIndex
       /\ gs.continentSections[i].name = seedNames[i]

\* C19: calculateFinanceIndex is exactly 10.0 for a GDPCapita of 70000 and
\* for every GDPCapita above it: so it is for every region of the world whose
\* GDPCapita is at least 70000.
C19_FinanceIndexCapFrom70000 ==
  \A i \in DOMAIN gs.continentSections :
    Ge(gs.continentSections[i].GDPCapita, 70000 * 1000)
      => calculateFinanceIndex(gs.continentSections[i].GDPCapita) = 10 * S

\* C20: in every reachable state every region has the originalPopulation of
\* the seed, which is above zero, and a lifeExpectancy of 15 or more: no tick,
\* intervention or input event changes originalPopulation, and the divisions
\* by originalPopulation and lifeExpectancy in updateContinentSection never
\* divide by zero.
C20_DivisorsNeverZero ==
  \A i \in DOMAIN gs.continentSections :
    LET cs == gs.continentSections[i]
    IN /\ cs.originalPopulation = initialGameState.continentSections[i].originalPopulation
       /\ cs.originalPopulation > 0
       /\ Ge(cs.lifeExpectancy, 15 * S)
       /\ cs.lifeExpectancy # 0

\* A tick has applied an intervention and advanced the day: the population
\* and the lifeExpectancy of a region moved, and its originalPopulation is
\* the one of the seed.
C20_Witness ==
  /\ lastStep = "rendered"
  /\ processed # <<>>
  /\ calls = extensionPoints
  /\ \E i \in DOMAIN gs.continentSections :
       LET cs == gs.continentSections[i]
           seed == initialGameState.continentSections[i]
       IN /\ cs.totalPopulation # seed.totalPopulation
          /\ cs.lifeExpectancy # seed.lifeExpectancy
          /\ cs.originalPopulation = seed.originalPopulation

\* The four yearly terms of the population change of a region: births,
\* natural deaths, deaths from conflicts and deaths from disease.
births(cs) == Mul(cs.totalPopulation, DivC(cs.birthRate, 1000))
naturalDeaths(cs) == Div(cs.totalPopulation, cs.lifeExpectancy)
conflictDeaths(cs) ==
  MulDiv(DivC(cs.totalPopulation, 100), DivC(Pow23(cs.conflictLevel), 10), 10 * P)
diseaseDeaths(cs) ==
  Mul(cs.totalPopulation,
      DivC(Mul(DivC(cs.diseaseIndex, 5), DivC(cs.diseaseIndex, 5)), 1000))

\* The population of the next day with each of the four terms divided by 365
\* on its own.
dailyPopulation(cs) ==
  Add(cs.totalPopulation,
      Sub(Sub(Sub(DivC(births(cs), 365), DivC(naturalDeaths(cs), 365)),
              DivC(conflictDeaths(cs), 365)),
          DivC(diseaseDeaths(cs), 365)))

\* Two numbers that are equal up to the rounding of the four divisions.
Near(a, b, units) ==
  IF IsFinite(a) /\ IsFinite(b) THEN Abs(a - b) <= units ELSE a = b

\* The region of the example with 100000 times its 1000 people, in tens of
\* persons: the change of the population is proportional to the population.
exampleRegion ==
  [initialGameState.continentSections[1] EXCEPT
    !.totalPopulation = 10000000,
    !.originalPopulation = 10000000,
    !.birthRate = Real(365, 10),
    !.lifeExpectancy = 73 * S,
    !.conflictLevel = 0,
    !.diseaseIndex = 0]

\* C21: the totalPopulation that updateContinentSection computes, before
\* clamping, is the old one plus the daily share (1/365) of births minus
\* natural deaths minus deaths from conflicts minus deaths from disease, all
\* taken from the region of the previous day; the result is the clamp of it;
\* and the region of the example grows by 0.0625 per 1000 people, within
\* 0.001 (by 625 tens of persons, within 10, for 100000 times the people).
C21_PopulationDailyDelta ==
  /\ \A i \in DOMAIN gs.continentSections :
       LET cs == gs.continentSections[i]
       IN /\ Near(newPopulation(cs), dailyPopulation(cs), 2)
          /\ updateContinentSection(gs, cs).totalPopulation =
               clamp(0, constants.maxPopulation, newPopulation(cs))
  /\ Near(newCS(exampleRegion).totalPopulation - exampleRegion.totalPopulation,
          625, 10)

\* advanceDay has been applied to a world, and the population of a region
\* that had births and deaths moved by its daily change, inside the range.
C21_Witness ==
  /\ lastStep = "advanceDay"
  /\ \E i \in DOMAIN gs.continentSections :
       LET cs == input.continentSections[i]
       IN /\ births(cs) > 0
          /\ naturalDeaths(cs) > 0
          /\ conflictDeaths(cs) > 0
          /\ diseaseDeaths(cs) > 0
          /\ IsFinite(populationDelta(cs))
          /\ populationDelta(cs) # 0
          /\ gs.continentSections[i].totalPopulation
               = cs.totalPopulation + populationDelta(cs)

\* C22: after updateContinentSection the birthRateDelta of a region is the
\* clamp to -10 .. 10 of the old one plus the daily share of
\* (happiness - 6.5) / 300 + 0.03 * (1 - totalPopulation / originalPopulation),
\* taken from the region of the previous day.
C22_BirthRateDeltaUpdated ==
  \A i \in DOMAIN gs.continentSections :
    LET cs == gs.continentSections[i]
    IN updateContinentSection(gs, cs).birthRateDelta =
         clamp(-10 * S, 10 * S,
               Add(cs.birthRateDelta,
                   DivC(Add(DivC(Sub(cs.happiness, Real(65, 10)), 300),
                            Mul(Real(3, 100),
                                Sub(1 * S, Div(cs.totalPopulation, cs.originalPopulation)))),
                        365)))

\* C23: after updateContinentSection the conflictLevel of a region is the
\* clamp to 0 .. 10 of the old one plus the daily share of
\* (6.5 - happiness) - conflictLevel / 3, with the happiness computed in the
\* same call.
C23_ConflictLevelDecays ==
  \A i \in DOMAIN gs.continentSections :
    LET cs == gs.continentSections[i]
    IN Near(updateContinentSection(gs, cs).conflictLevel,
            clamp(0, 10 * S,
                  Add(cs.conflictLevel,
                      DivC(Sub(Sub(Real(65, 10), happiness(cs)),
                               DivC(cs.conflictLevel, 3)),
                           365))),
            2)

\* C24: after updateContinentSection, birthRate, lifeExpectancy and happiness
\* are the clamps (to 0 .. 200, 15 .. 250 and 0 .. 10) of their previous
\* values advanced by 1/365 of birthRateDelta, lifeExpectancyDelta and
\* happinessDelta as stored in the region before the call.
C24_FirstOrderFields ==
  \A i \in DOMAIN gs.continentSections :
    LET cs == gs.continentSections[i]
        next == updateContinentSection(gs, cs)
    IN /\ next.birthRate =
            clamp(0, 200 * S, Add(cs.birthRate, DivC(cs.birthRateDelta, 365)))
       /\ next.lifeExpectancy =
            clamp(15 * S, 250 * S, Add(cs.lifeExpectancy, DivC(cs.lifeExpectancyDelta, 365)))
       /\ next.happiness =
            clamp(0, 10 * S, Add(cs.happiness, DivC(cs.happinessDelta, 365)))

\* advanceDay has been applied to a world, and the birthRate, lifeExpectancy
\* and happiness of a region moved by a day of the rates it had.
C24_Witness ==
  /\ lastStep = "advanceDay"
  /\ \E i \in DOMAIN gs.continentSections :
       LET cs == input.continentSections[i]
           next == gs.continentSections[i]
       IN /\ next.birthRate = cs.birthRate + DivC(cs.birthRateDelta, 365)
          /\ next.birthRate # cs.birthRate
          /\ next.lifeExpectancy = cs.lifeExpectancy + DivC(cs.lifeExpectancyDelta, 365)
          /\ next.lifeExpectancy # cs.lifeExpectancy
          /\ next.happiness = cs.happiness + DivC(cs.happinessDelta, 365)
          /\ next.happiness # cs.happiness

\* next, the update of a region, has the clamp of index as its financeIndex,
\* and other, the update of a region that differs from it in financeIndex
\* only, is the same.
recomputed(next, other, index) ==
  /\ next.financeIndex = clamp(0, 10 * S, index)
  /\ other = next

\* C25: after updateContinentSection, financeIndex is the clamp to 0 .. 10 of
\* calculateFinanceIndex of the new GDPCapita, which is the old GDPCapita
\* times (1 + GDPCapitaMultiplier / 365); it does not depend on the
\* financeIndex the region had.
C25_FinanceIndexRecomputed ==
  \A i \in DOMAIN gs.continentSections :
    LET cs == gs.continentSections[i]
    IN recomputed(
         updateContinentSection(gs, cs),
         updateContinentSection(gs, [cs EXCEPT !.financeIndex = 10 * S - @]),
         calculateFinanceIndex(
           Mul(cs.GDPCapita, Add(1 * S, DivC(cs.GDPCapitaMultiplier, 365)))))

\* advanceDay has been applied to a world, and a region whose financeIndex
\* was not the index of its GDPCapita got the index of its new GDPCapita.
C25_Witness ==
  /\ lastStep = "advanceDay"
  /\ \E i \in DOMAIN gs.continentSections :
       LET cs == input.continentSections[i]
           next == gs.continentSections[i]
       IN /\ next.GDPCapita # cs.GDPCapita
          /\ next.financeIndex # cs.financeIndex
          /\ IsFinite(next.financeIndex)
          /\ next.financeIndex > 0
          /\ next.financeIndex < 10 * S
          /\ next.financeIndex = calculateFinanceIndex(next.GDPCapita)

\* The fields of a region that updateContinentSection passes on.
passedOn(cs) ==
  [ diseaseIndex |-> cs.diseaseIndex,
    name |-> cs.name,
    originalPopulation |-> cs.originalPopulation,
    neighbors |-> cs.neighbors,
    subRegions |-> cs.subRegions,
    xywh |-> cs.xywh,
    globalTempDiffSensitivity |-> cs.globalTempDiffSensitivity ]

\* C26: for a region whose fields are within their clamp ranges,
\* updateContinentSection returns a region with the diseaseIndex, name,
\* originalPopulation, neighbors, subRegions, xywh and
\* globalTempDiffSensitivity of its input.
C26_PassedOnFields ==
  \A i \in DOMAIN gs.continentSections :
    LET cs == gs.continentSections[i]
    IN InClampRange(cs) => passedOn(updateContinentSection(gs, cs)) = passedOn(cs)

\* advanceDay has been applied to a world, and a region with disease that was
\* within its ranges changed in other fields and kept these.
C26_Witness ==
  /\ lastStep = "advanceDay"
  /\ \E i \in DOMAIN gs.continentSections :
       LET cs == input.continentSections[i]
           next == gs.continentSections[i]
       IN /\ InClampRange(cs)
          /\ cs.diseaseIndex > 0
          /\ next # cs
          /\ passedOn(next) = passedOn(cs)

C28_QueueDrainedOncePerTick ==
  [][ TickTaken
        => /\ processed' = clickedButtons
           /\ clickedButtons' = <<>>
           /\ clickedButtons = <<>> /\ gs'.day = gs.day => gs' = gs ]_vars

\* Names of keys of a keyboard: the digits, letters, signs and the space bar,
\* and named keys with and without digits in their names.
KeyNames ==
  { <<DecimalDigits[d]>> : d \in 1 .. 10 }
    \cup { <<"a">>, <<"e">>, <<"x">>, <<"-">>, <<"+">>, <<".">>, <<" ">>,
           <<"F", "1">>, <<"F", "1", "2">>, <<"E", "n", "t", "e", "r">>,
           <<"S", "o", "f", "t", "1">> }

\* The step is a key press that sets gameSpeed to the integer of the key.
SpeedKeyPressed ==
  \E key \in KeyNames :
    /\ ~IsNaN(parseInt(key))
    /\ gs' = [gs EXCEPT !.gameSpeed = parseInt(key)]
    /\ UNCHANGED <<clickedButtons, timeUntilDayAdvance, lastStep, calls, processed>>

\* C29: gameSpeed starts at 1 and is an integer in 0 .. 9 in every reachable
\* state: the name of every key parses to one of them or to NaN, only a press
\* of a key whose name parses as an integer changes gameSpeed, to that
\* integer, and a tick leaves it as it is.
C29_GameSpeedIsDigit ==
  /\ initialGameState.gameSpeed = 1
  /\ [](gs.gameSpeed \in 0 .. 9)
  /\ [](\A key \in KeyNames \cup Keys \cup ClockKeys :
          IsNaN(parseInt(key)) \/ parseInt(key) \in 0 .. 9)
  /\ [][gs'.gameSpeed # gs.gameSpeed => SpeedKeyPressed]_vars
  /\ [][TickTaken => gs'.gameSpeed = gs.gameSpeed]_vars

\* The game has been paused with the key 0 after a day went by at speed 1.
C29_Witness ==
  /\ gs.gameSpeed = 0
  /\ gs.day = 1
  /\ lastStep = "rendered"
  /\ clickedButtons = <<>>

\* The region is one that a queued click was made for, with a button that
\* changes it.
clickedFor(cs) ==
  \E k \in DOMAIN clickedOn :
    /\ clickedOn[k] = cs.name
    /\ onClick(clickedButtons[k], cs) # cs

\* C30: a queued intervention is applied to the region that was selected when
\* its button was clicked, whatever happens to the selection before the tick:
\* a tick that runs a queue of clicks made with a continent selected (and
\* advances no day) changes the regions the clicks were made for, and no
\* other region.
C30_AppliedToSelectionAtClick ==
  [][ ( /\ TickTaken
        /\ clickedButtons # <<>>
        /\ \A k \in DOMAIN clickedOn : clickedOn[k] # undefined
        /\ gs'.day = gs.day )
      => \A i \in DOMAIN gs.continentSections :
           (gs'.continentSections[i] # gs.continentSections[i])
             <=> clickedFor(gs.continentSections[i]) ]_vars
====
